---- MODULE Spec2Model ----
(***************************************************************************)
(* Model of the MLX vision OCR sidecar (server/scripts/mlx_vision_server.py):*)
(* the content cache, the fast-path merchant matcher, the model-output     *)
(* parser and the /extract and /health handlers.                           *)
(*                                                                         *)
(* Strings that the code searches or rewrites are sequences of one-char    *)
(* strings; a model text is a sequence of tokens (fence marker, the word   *)
(* json, whitespace, and atoms that hold neither fences nor outer blanks). *)
(***************************************************************************)
EXTENDS Integers, Sequences, FiniteSets, TLC

\* ---------------------------------------------------------------- bounds
MaxRequests == 3
MaxCapacity == 2
MaxPieces == 3
MaxOps == 4
MaxTokens == 6
MaxArrivals == 2

\* ------------------------------------------------------- python values
\* A JSON scalar as json.loads returns it: str, number or None.
JStr(s) == [t |-> "str", s |-> s, n |-> 0]
JNum(n) == [t |-> "num", s |-> <<>>, n |-> n]
JNull == [t |-> "null", s |-> <<>>, n |-> 0]

\* bool(v) of a JSON scalar
Truthy(v) ==
  CASE v.t = "str" -> v.s # <<>>
    [] v.t = "num" -> v.n # 0
    [] OTHER -> FALSE

NoFields == [k \in {} |-> JNull]
\* A decoded JSON document: a dict (field -> scalar), a list, or None.
JDict(f) == [t |-> "dict", f |-> f]
JList == [t |-> "list", f |-> NoFields]
None == [t |-> "null", f |-> NoFields]

\* bool(extracted): None, {} and [] are falsy
TruthyDoc(d) == d.t = "dict" /\ DOMAIN d.f # {}

\* d.get(k, default)
DictGet(d, k, default) == IF k \in DOMAIN d.f THEN d.f[k] ELSE default

\* d[k] = v
DictSet(d, k, v) ==
  [d EXCEPT !.f = [x \in (DOMAIN d.f) \cup {k} |-> IF x = k THEN v ELSE d.f[x]]]

\* ------------------------------------------- fast-path merchant table
Supermercado == <<"S","u","p","e","r","m","e","r","c","a","d","o">>
Servicos == <<"S","e","r","v","i","ç","o","s">>
Transportes == <<"T","r","a","n","s","p","o","r","t","e","s">>
Tecnologia == <<"T","e","c","n","o","l","o","g","i","a">>
Vestuario == <<"V","e","s","t","u","á","r","i","o">>
Restaurante == <<"R","e","s","t","a","u","r","a","n","t","e">>
Outros == <<"O","u","t","r","o","s">>
EUR == <<"E","U","R">>

FAST_PATH_MERCHANTS ==
  << [key |-> <<"p","i","n","g","o"," ","d","o","c","e">>,
      merchant |-> <<"P","i","n","g","o"," ","D","o","c","e">>,
      category |-> Supermercado, currency |-> EUR],
     [key |-> <<"c","o","n","t","i","n","e","n","t","e">>,
      merchant |-> <<"C","o","n","t","i","n","e","n","t","e">>,
      category |-> Supermercado, currency |-> EUR],
     [key |-> <<"l","i","d","l">>,
      merchant |-> <<"L","i","d","l">>,
      category |-> Supermercado, currency |-> EUR],
     [key |-> <<"a","l","d","i">>,
      merchant |-> <<"A","l","d","i">>,
      category |-> Supermercado, currency |-> EUR],
     [key |-> <<"m","e","r","c","a","d","o","n","a">>,
      merchant |-> <<"M","e","r","c","a","d","o","n","a">>,
      category |-> Supermercado, currency |-> EUR],
     [key |-> <<"e","d","p">>,
      merchant |-> <<"E","D","P">>,
      category |-> Servicos, currency |-> EUR],
     [key |-> <<"g","a","l","p">>,
      merchant |-> <<"G","a","l","p">>,
      category |-> Transportes, currency |-> EUR],
     [key |-> <<"m","e","o">>,
      merchant |-> <<"M","E","O">>,
      category |-> Servicos, currency |-> EUR],
     [key |-> <<"v","o","d","a","f","o","n","e">>,
      merchant |-> <<"V","o","d","a","f","o","n","e">>,
      category |-> Servicos, currency |-> EUR],
     [key |-> <<"n","o","s">>,
      merchant |-> <<"N","O","S">>,
      category |-> Servicos, currency |-> EUR],
     [key |-> <<"u","b","e","r">>,
      merchant |-> <<"U","b","e","r">>,
      category |-> Transportes, currency |-> EUR],
     [key |-> <<"b","o","l","t">>,
      merchant |-> <<"B","o","l","t">>,
      category |-> Transportes, currency |-> EUR],
     [key |-> <<"w","o","r","t","e","n">>,
      merchant |-> <<"W","o","r","t","e","n">>,
      category |-> Tecnologia, currency |-> EUR],
     [key |-> <<"f","n","a","c">>,
      merchant |-> <<"F","N","A","C">>,
      category |-> Tecnologia, currency |-> EUR],
     [key |-> <<"z","a","r","a">>,
      merchant |-> <<"Z","a","r","a">>,
      category |-> Vestuario, currency |-> EUR],
     [key |-> <<"p","r","i","m","a","r","k">>,
      merchant |-> <<"P","r","i","m","a","r","k">>,
      category |-> Vestuario, currency |-> EUR],
     [key |-> <<"m","c","d","o","n","a","l","d">>,
      merchant |-> <<"M","c","D","o","n","a","l","d","'","s">>,
      category |-> Restaurante, currency |-> EUR],
     [key |-> <<"b","u","r","g","e","r"," ","k","i","n","g">>,
      merchant |-> <<"B","u","r","g","e","r"," ","K","i","n","g">>,
      category |-> Restaurante, currency |-> EUR],
     [key |-> <<"i","k","e","a">>,
      merchant |-> <<"I","K","E","A">>,
      category |-> Outros, currency |-> EUR] >>

NoMeta == [key |-> <<>>, merchant |-> <<>>, category |-> <<>>, currency |-> <<>>]

\* str.lower() on one character (ASCII letters; others are unchanged)
LowerChar(c) ==
    CASE
            c = "A" -> "a"
         [] c = "B" -> "b"
         [] c = "C" -> "c"
         [] c = "D" -> "d"
         [] c = "E" -> "e"
         [] c = "F" -> "f"
         [] c = "G" -> "g"
         [] c = "H" -> "h"
         [] c = "I" -> "i"
         [] c = "J" -> "j"
         [] c = "K" -> "k"
         [] c = "L" -> "l"
         [] c = "M" -> "m"
         [] c = "N" -> "n"
         [] c = "O" -> "o"
         [] c = "P" -> "p"
         [] c = "Q" -> "q"
         [] c = "R" -> "r"
         [] c = "S" -> "s"
         [] c = "T" -> "t"
         [] c = "U" -> "u"
         [] c = "V" -> "v"
         [] c = "W" -> "w"
         [] c = "X" -> "x"
         [] c = "Y" -> "y"
         [] c = "Z" -> "z"
         [] OTHER -> c

\* str.lower()
Lower(s) == [i \in 1..Len(s) |-> LowerChar(s[i])]

\* key in text  (substring test)
Contains(key, text) ==
  \E o \in 0..(Len(text) - Len(key)) : SubSeq(text, o + 1, o + Len(key)) = key

RECURSIVE ScanRules(_, _)
\* the for loop of _try_fast_path from rule i on: first rule whose key occurs
ScanRules(text_lower, i) ==
  IF i > Len(FAST_PATH_MERCHANTS) THEN NoMeta
  ELSE IF Contains(FAST_PATH_MERCHANTS[i].key, text_lower)
       THEN FAST_PATH_MERCHANTS[i]
       ELSE ScanRules(text_lower, i + 1)

\* _try_fast_path without raw_text.lower()
try_fast_path_nolower(raw_text) == ScanRules(raw_text, 1)

\* _try_fast_path(raw_text): the matched meta (NoMeta for None); the caller
\* adds one to fast_path_hits when a meta is returned
try_fast_path(raw_text) == ScanRules(Lower(raw_text), 1)

\* ------------------------------------------------------ content cache
NoStats == [generation_time_s |-> 0, tokens_per_second |-> 0, peak_memory_gb |-> 0]
NoResult == [status |-> "", extraction |-> None, raw_text |-> <<>>, stats |-> NoStats]

\* _content_cache is an OrderedDict: a sequence of [key, value], oldest first
CacheKeys(c) == {c[i].key : i \in 1..Len(c)}

IndexOf(c, k) == CHOOSE i \in 1..Len(c) : c[i].key = k

\* OrderedDict.move_to_end(k)
move_to_end(c, k) ==
  SelectSeq(c, LAMBDA e : e.key # k) \o <<c[IndexOf(c, k)]>>

\* _content_cache[k] = v : overwrite in place, or append a new key
setitem(c, k, v) ==
  IF k \in CacheKeys(c)
  THEN [c EXCEPT ![IndexOf(c, k)] = [key |-> k, value |-> v]]
  ELSE Append(c, [key |-> k, value |-> v])

\* _cache_get that never finds the key
cache_get_blind(c, hits, key) ==
  [found |-> FALSE, value |-> NoResult, cache |-> c, hits |-> hits]

\* _cache_get without move_to_end
cache_get_nomove(c, hits, key) ==
  IF key \in CacheKeys(c)
  THEN [found |-> TRUE, value |-> c[IndexOf(c, key)].value,
        cache |-> c, hits |-> hits + 1]
  ELSE [found |-> FALSE, value |-> NoResult, cache |-> c, hits |-> hits]

\* _cache_get whose increment of the hit counter is lost
cache_get_uncounted(c, hits, key) ==
  IF key \in CacheKeys(c)
  THEN [found |-> TRUE, value |-> c[IndexOf(c, key)].value,
        cache |-> move_to_end(c, key), hits |-> hits]
  ELSE [found |-> FALSE, value |-> NoResult, cache |-> c, hits |-> hits]

\* _cache_get that counts a hit on every lookup, found or not
cache_get_countall(c, hits, key) ==
  IF key \in CacheKeys(c)
  THEN [found |-> TRUE, value |-> c[IndexOf(c, key)].value,
        cache |-> move_to_end(c, key), hits |-> hits + 1]
  ELSE [found |-> FALSE, value |-> NoResult, cache |-> c, hits |-> hits + 1]

\* _cache_get(key) on cache c with counter hits
cache_get(c, hits, key) ==
  IF key \in CacheKeys(c)
  THEN [found |-> TRUE, value |-> c[IndexOf(c, key)].value,
        cache |-> move_to_end(c, key), hits |-> hits + 1]
  ELSE [found |-> FALSE, value |-> NoResult, cache |-> c, hits |-> hits]

RECURSIVE evict_newest(_, _)
\* evict with popitem() in place of popitem(last=False)
evict_newest(c, cap) ==
  IF Len(c) > cap
  THEN IF c = <<>>
       THEN [cache |-> c, raised |-> TRUE, evicted |-> <<>>]
       ELSE LET r == evict_newest(SubSeq(c, 1, Len(c) - 1), cap)
            IN  [r EXCEPT !.evicted = <<c[Len(c)].key>> \o @]
  ELSE [cache |-> c, raised |-> FALSE, evicted |-> <<>>]

RECURSIVE evict_late(_, _)
\* evict with the loop test off by one: len(_content_cache) > MAX_CACHE_SIZE + 1
evict_late(c, cap) ==
  IF Len(c) > cap + 1
  THEN IF c = <<>>
       THEN [cache |-> c, raised |-> TRUE, evicted |-> <<>>]
       ELSE LET r == evict_late(Tail(c), cap)
            IN  [r EXCEPT !.evicted = <<Head(c).key>> \o @]
  ELSE [cache |-> c, raised |-> FALSE, evicted |-> <<>>]

RECURSIVE evict(_, _)
\* while len(_content_cache) > MAX_CACHE_SIZE: popitem(last=False)
\* popitem on an empty OrderedDict raises KeyError
evict(c, cap) ==
  IF Len(c) > cap
  THEN IF c = <<>>
       THEN [cache |-> c, raised |-> TRUE, evicted |-> <<>>]
       ELSE LET r == evict(Tail(c), cap)
            IN  [r EXCEPT !.evicted = <<Head(c).key>> \o @]
  ELSE [cache |-> c, raised |-> FALSE, evicted |-> <<>>]

\* _cache_put without move_to_end: an overwritten key keeps its place
cache_put_nomove(c, misses, key, value, cap) ==
  LET r == evict(setitem(c, key, value), cap)
  IN  [cache |-> r.cache, misses |-> misses + 1,
       raised |-> r.raised, evicted |-> r.evicted]

\* _cache_put(key, value) on cache c with counter misses and capacity cap
cache_put(c, misses, key, value, cap) ==
  LET r == evict(move_to_end(setitem(c, key, value), key), cap)
  IN  [cache |-> r.cache, misses |-> misses + 1,
       raised |-> r.raised, evicted |-> r.evicted]

\* ------------------------------------------------------------- parser
\* the fence marker, three backticks
FENCE == "<fence>"
JSONTAG == "json"
Blank == {" ", "\n"}

\* first index at which sep occurs in text, 0 when it does not
Find(text, sep) ==
  LET occ == {i \in 1..(Len(text) - Len(sep) + 1) :
                SubSeq(text, i, i + Len(sep) - 1) = sep}
  IN  IF occ = {} THEN 0 ELSE CHOOSE i \in occ : \A j \in occ : i <= j

RECURSIVE Split(_, _)
\* str.split(sep): the parts between the occurrences of sep, left to right
Split(text, sep) ==
  LET i == Find(text, sep)
  IN  IF i = 0 THEN <<text>>
      ELSE <<SubSeq(text, 1, i - 1)>>
           \o Split(SubSeq(text, i + Len(sep), Len(text)), sep)

RECURSIVE Strip(_)
\* str.strip()
Strip(text) ==
  IF text = <<>> THEN text
  ELSE IF Head(text) \in Blank THEN Strip(Tail(text))
  ELSE IF text[Len(text)] \in Blank THEN Strip(SubSeq(text, 1, Len(text) - 1))
  ELSE text

\* the fence stripping with [1] in place of [-1]: the first tagged block
strip_fences_first(text) ==
  IF Find(text, <<FENCE, JSONTAG>>) # 0
  THEN LET parts == Split(text, <<FENCE, JSONTAG>>)
       IN  Strip(Split(parts[2], <<FENCE>>)[1])
  ELSE IF Find(text, <<FENCE>>) # 0
  THEN Strip(Split(Split(text, <<FENCE>>)[2], <<FENCE>>)[1])
  ELSE text

\* the fence stripping of extract: the string handed to json.loads
strip_fences(text) ==
  IF Find(text, <<FENCE, JSONTAG>>) # 0
  THEN LET parts == Split(text, <<FENCE, JSONTAG>>)
       IN  Strip(Split(parts[Len(parts)], <<FENCE>>)[1])
  ELSE IF Find(text, <<FENCE>>) # 0
  THEN Strip(Split(Split(text, <<FENCE>>)[2], <<FENCE>>)[1])
  ELSE text

DocLidl == "{\"merchant\":\"LIDL Portugal\",\"total\":5}"
DocGalp == "{\"merchant\":\"Galp\",\"category\":\"Outros\"}"
DocCafe == "{\"merchant\":\"Cafe\",\"currency\":\"\"}"
DocNumMerchant == "{\"merchant\":5}"

\* json.loads on the atoms that are JSON documents
JsonDocs ==
  (DocLidl :> JDict("merchant" :> JStr(<<"L","I","D","L"," ","P","o","r","t","u","g","a","l">>)
                    @@ "total" :> JNum(5)))
  @@ (DocGalp :> JDict("merchant" :> JStr(<<"G","a","l","p">>)
                       @@ "category" :> JStr(Outros)))
  @@ (DocCafe :> JDict("merchant" :> JStr(<<"C","a","f","e">>)
                       @@ "currency" :> JStr(<<>>)))
  @@ (DocNumMerchant :> JDict("merchant" :> JNum(5)))
  @@ ("{}" :> JDict(NoFields))
  @@ ("[]" :> JList)
  @@ ("null" :> None)

\* json.loads(text): a document, or JSONDecodeError.  Blanks around the
\* document are ignored; two documents, or prose, do not decode.
json_loads(text) ==
  LET s == Strip(text)
  IN  IF Len(s) = 1 /\ s[1] \in DOMAIN JsonDocs
      THEN [ok |-> TRUE, doc |-> JsonDocs[s[1]]]
      ELSE [ok |-> FALSE, doc |-> None]

\* lines 358-370: extracted, None when the text does not decode
parse(text) == json_loads(strip_fences(text)).doc

\* line 396 without its test: every result is stored
should_cache_always(extracted) == TRUE

\* line 396: only a document that is not None is stored
should_cache(extracted) == extracted # None

\* lines 373-382 with category and currency always taken from the rule
enrich_overwrite(extracted) ==
  IF ~TruthyDoc(extracted)
  THEN [doc |-> extracted, raised |-> FALSE, hit |-> FALSE]
  ELSE LET m == DictGet(extracted, "merchant", JStr(<<>>))
           merchant_str == IF Truthy(m) THEN m ELSE JStr(<<>>)
       IN  IF merchant_str.t # "str"
           THEN [doc |-> extracted, raised |-> TRUE, hit |-> FALSE]
           ELSE LET fast_meta == try_fast_path(merchant_str.s)
                    e1 == DictSet(extracted, "merchant", JStr(fast_meta.merchant))
                    e2 == DictSet(e1, "category", JStr(fast_meta.category))
                    e3 == DictSet(e2, "currency", JStr(fast_meta.currency))
                IN  IF fast_meta # NoMeta
                    THEN [doc |-> e3, raised |-> FALSE, hit |-> TRUE]
                    ELSE [doc |-> extracted, raised |-> FALSE, hit |-> FALSE]

\* lines 373-382: the fast-path enrichment of a parsed document.
\* raised: merchant is a truthy non-string, so raw_text.lower() fails
enrich(extracted) ==
  IF ~TruthyDoc(extracted)
  THEN [doc |-> extracted, raised |-> FALSE, hit |-> FALSE]
  ELSE LET m == DictGet(extracted, "merchant", JStr(<<>>))
           merchant_str == IF Truthy(m) THEN m ELSE JStr(<<>>)
       IN  IF merchant_str.t # "str"
           THEN [doc |-> extracted, raised |-> TRUE, hit |-> FALSE]
           ELSE LET fast_meta == try_fast_path(merchant_str.s)
                    e1 == DictSet(extracted, "merchant", JStr(fast_meta.merchant))
                    e2 == IF ~Truthy(DictGet(e1, "category", JNull))
                          THEN DictSet(e1, "category", JStr(fast_meta.category))
                          ELSE e1
                    e3 == IF ~Truthy(DictGet(e2, "currency", JNull))
                          THEN DictSet(e2, "currency", JStr(fast_meta.currency))
                          ELSE e2
                IN  IF fast_meta # NoMeta
                    THEN [doc |-> e3, raised |-> FALSE, hit |-> TRUE]
                    ELSE [doc |-> extracted, raised |-> FALSE, hit |-> FALSE]

\* ----------------------------------------------------- request inputs
MAX_TOKENS == 1024
EXTRACT_SYSTEM_PROMPT == "EXTRACT_SYSTEM_PROMPT"
PromptNone == "<None>"

\* base64.b64decode(req.image): blanks are discarded, bad padding raises
b64decode(image) ==
  CASE image = "QQ==" -> [ok |-> TRUE, bytes |-> <<65>>]
    [] image = "QQ\n==" -> [ok |-> TRUE, bytes |-> <<65>>]
    [] image = "Qg==" -> [ok |-> TRUE, bytes |-> <<66>>]
    [] image = "Qw==" -> [ok |-> TRUE, bytes |-> <<67>>]
    [] OTHER -> [ok |-> FALSE, bytes |-> <<>>]

\* hashlib.sha256(data).hexdigest(), as four blocks of 16 hex digits
sha256(data) ==
  CASE data = <<65>> -> <<"559aead08264d579", "5d3909718cdd05ab",
                          "d49572e84fe55590", "eef31a88a08fdffd">>
    [] data = <<66>> -> <<"df7e70e5021544f4", "834bbee64a9e3789",
                          "febc4be81470df62", "9cad6ddb03320a5c">>
    [] data = <<67>> -> <<"6b23c0d5f35d1b11", "f9b683f0b0a61735",
                          "5deb11277d91ae09", "1d399c655b87940d">>
    [] data = <<68>> -> <<"3f39d5c348e5b79d", "06e842c114e6cc57",
                          "1583bbf44e4b0ebf", "da1a01ec05745d43">>

\* a cache key that also depends on the prompt of the request
content_hash_prompted(req, image_bytes) ==
  IF req.prompt \in {PromptNone, ""} THEN sha256(image_bytes) ELSE sha256(<<68>>)

\* line 339: the cache key of request req, whose image decoded to image_bytes
content_hash_of(req, image_bytes) == sha256(image_bytes)

\* content_hash[:16]
Prefix16(digest) == digest[1]

\* req.mime_type.split("/")[-1].replace("jpeg", "jpg"); a mime type is the
\* sequence of its "/"-separated parts
suffix(mime_type) ==
  LET last == mime_type[Len(mime_type)]
  IN  IF last = "jpeg" THEN "jpg" ELSE last

Requests ==
  { [image |-> "QQ==", mime_type |-> <<"image", "png">>,
     prompt |-> PromptNone, max_tokens |-> MAX_TOKENS],
    [image |-> "QQ\n==", mime_type |-> <<"image", "jpeg">>,
     prompt |-> "List the items", max_tokens |-> 64],
    [image |-> "Qg==", mime_type |-> <<"image", "png">>,
     prompt |-> PromptNone, max_tokens |-> MAX_TOKENS],
    [image |-> "Qw==", mime_type |-> <<"image", "png">>,
     prompt |-> "", max_tokens |-> MAX_TOKENS],
    [image |-> "Q", mime_type |-> <<"image", "png">>,
     prompt |-> PromptNone, max_tokens |-> MAX_TOKENS] }

\* what the model collaborator may answer (result.text)
ModelTexts ==
  { <<DocLidl>>,
    <<"Here", " ", FENCE, JSONTAG, "\n", DocGalp, "\n", FENCE>>,
    <<"unreadable">>,
    <<"null">>,
    <<DocNumMerchant>> }

\* the timing figures _generate_from_image adds to the text
GenStats ==
  { [generation_time_s |-> 2, tokens_per_second |-> 31, peak_memory_gb |-> 6] }

NoRaw == [text |-> <<>>, stats |-> NoStats]
NoReq == [image |-> "", mime_type |-> <<>>, prompt |-> "", max_tokens |-> 0]

\* the dict built at lines 384-393
Result(extracted, raw) ==
  [status |-> "ok", extraction |-> extracted, raw_text |-> raw.text,
   stats |-> raw.stats]

\* {**result, "cache": tag, "content_hash": content_hash[:16]}, HTTP 200
Envelope(result, tag, content_hash) ==
  [code |-> 200, status |-> result.status, extraction |-> result.extraction,
   raw_text |-> result.raw_text, stats |-> result.stats,
   cache |-> tag, content_hash |-> Prefix16(content_hash)]

\* HTTPException(code) or an unhandled exception (500)
Failure(code) ==
  [code |-> code, status |-> "error", extraction |-> None, raw_text |-> <<>>,
   stats |-> NoStats, cache |-> "", content_hash |-> ""]

NoResponse ==
  [code |-> 0, status |-> "", extraction |-> None, raw_text |-> <<>>,
   stats |-> NoStats, cache |-> "", content_hash |-> ""]

\* the locals of one extract call; present, visited, cache0 (the cache
\* when the handler started) and seen (the calls that had finished when the
\* request arrived) are history fields
NoFrame ==
  [req |-> NoReq, image_bytes |-> <<>>, content_hash |-> <<>>,
   tmp_path |-> "", prompt |-> "", raw |-> NoRaw, extracted |-> None,
   ret |-> NoResponse, present |-> FALSE, visited |-> {}, cache0 |-> <<>>,
   counters0 |-> <<0, 0, 0>>, seen |-> 0]

NoFpOut == [pc |-> "start", meta |-> NoMeta, doc |-> None, raised |-> FALSE]

NoParsed == [done |-> FALSE, text |-> <<>>, extracted |-> None]

MODEL_ID == "mlx-community/Qwen3-VL-8B-Instruct-4bit"

\* what time.perf_counter() may measure for the load, in hundredths
LoadTimes == {412}

NoHealth ==
  [status |-> "", role |-> "", model |-> "", load_time_s |-> 0,
   ready |-> FALSE, size |-> 0 - 1, max_size |-> 0, hits |-> 0, misses |-> 0,
   fast_path_hits |-> 0, hit_rate |-> 0]

\* -------------------------------------------------------------- state
VARIABLES
  MAX_CACHE_SIZE,  \* int(os.getenv("MLX_CACHE_SIZE", "256"))
  model_loaded,    \* _model is not None
  load_time,       \* _load_time
  content_cache,   \* _content_cache
  cache_hits,      \* _cache_hits
  cache_misses,    \* _cache_misses
  fast_path_hits,  \* _fast_path_hits
  tmp_files,       \* the temporary files that exist
  pc,              \* position of the extract call in flight, or "idle"
  frame,           \* its locals
  response,        \* what the last finished extract call gave its caller
  health_out,      \* what the last health call returned
  nreq,            \* history: extract calls received
  failed,          \* history: extract calls that ended in an error
  model_calls,     \* history: calls of _generate_from_image
  op_log,          \* history: the _cache_get and _cache_put calls, in order
  last_evicted,    \* history: the keys the last put evicted
  recent,          \* history: the last two finished extract calls
  fp_in,           \* matcher harness: the parsed document under test
  fp_out,          \* matcher harness: what matcher and enrichment gave
  text_in,         \* parser harness: the model text under test
  parsed,          \* parser harness: what lines 358-370 made of it
  pending          \* requests that arrived and wait for the event loop

vars ==
  << MAX_CACHE_SIZE, model_loaded, load_time, content_cache, cache_hits, cache_misses,
     fast_path_hits, tmp_files, pc, frame, response, health_out, nreq,
     failed, model_calls, op_log, last_evicted, recent, fp_in, fp_out,
     text_in, parsed, pending >>

\* the variables an extract call may write, by group
confVars == << MAX_CACHE_SIZE, model_loaded, load_time >>
cacheVars == << content_cache, cache_hits, cache_misses >>
callVars == << pc, frame, response, recent, failed >>
fpVars == << fp_in, fp_out >>
parserVars == << text_in, parsed >>

Capacities == (0 - 1)..MaxCapacity

\* the module's globals after import; no call in flight
Start ==
  /\ model_loaded = FALSE
  /\ load_time = 0
  /\ content_cache = <<>>
  /\ cache_hits = 0
  /\ cache_misses = 0
  /\ fast_path_hits = 0
  /\ tmp_files = {}
  /\ pc = "idle"
  /\ frame = NoFrame
  /\ response = NoResponse
  /\ health_out = NoHealth
  /\ nreq = 0
  /\ failed = 0
  /\ model_calls = 0
  /\ op_log = <<>>
  /\ last_evicted = <<>>
  /\ recent = <<>>
  /\ fp_out = NoFpOut
  /\ parsed = NoParsed
  /\ pending = {}

Init ==
  /\ MAX_CACHE_SIZE \in Capacities
  /\ fp_in = None
  /\ text_in = <<>>
  /\ Start

\* lifespan: _load_model()
LoadModel ==
  /\ pc = "idle"
  /\ ~model_loaded
  /\ model_loaded' = TRUE
  /\ load_time' \in LoadTimes
  /\ UNCHANGED << MAX_CACHE_SIZE, cacheVars, fast_path_hits, tmp_files,
                  callVars, health_out, nreq, model_calls, op_log,
                  last_evicted, fpVars, parserVars, pending >>

\* round(x, 3) of the fraction num/den, in thousandths (ties to even)
Round3(num, den) ==
  LET q == (1000 * num) \div den
      r == (1000 * num) % den
  IN  IF 2 * r > den \/ (2 * r = den /\ q % 2 = 1) THEN q + 1 ELSE q

Max(a, b) == IF a >= b THEN a ELSE b

\* the dict of health() with size and max_size taken one for the other
HealthReport_swapped ==
  [status |-> "ok", role |-> "ocr-only", model |-> MODEL_ID,
   load_time_s |-> load_time,
   ready |-> model_loaded, size |-> MAX_CACHE_SIZE,
   max_size |-> Len(content_cache), hits |-> cache_hits,
   misses |-> cache_misses, fast_path_hits |-> fast_path_hits,
   hit_rate |-> Round3(cache_hits, Max(1, cache_hits + cache_misses))]

\* the dict health() returns
HealthReport ==
  [status |-> "ok", role |-> "ocr-only", model |-> MODEL_ID,
   load_time_s |-> load_time,
   ready |-> model_loaded, size |-> Len(content_cache),
   max_size |-> MAX_CACHE_SIZE, hits |-> cache_hits, misses |-> cache_misses,
   fast_path_hits |-> fast_path_hits,
   hit_rate |-> Round3(cache_hits, Max(1, cache_hits + cache_misses))]

\* GET /health
Health ==
  /\ pc = "idle"
  /\ health_out' = HealthReport
  /\ UNCHANGED << confVars, cacheVars, fast_path_hits, tmp_files, callVars,
                  nreq, model_calls, op_log, last_evicted, fpVars, parserVars, pending >>

\* the three counters of lines 63-65
Counters == << cache_hits, cache_misses, fast_path_hits >>

\* history: the extract calls that have finished
Finished == nreq - Cardinality(pending) - (IF pc = "idle" THEN 0 ELSE 1)

\* the extract call with final locals fr ends with resp: the handler
\* returns it, or raises it
Finish(fr, resp) ==
  /\ pc' = "idle"
  /\ frame' = NoFrame
  /\ response' = resp
  /\ failed' = failed + (IF resp.code = 200 THEN 0 ELSE 1)
  /\ recent' = (IF recent = <<>> THEN <<>> ELSE <<recent[Len(recent)]>>)
               \o << [req |-> fr.req, seen |-> fr.seen, order |-> Finished + 1,
                      ready |-> model_loaded,
                      decodable |-> b64decode(fr.req.image).ok,
                      image_bytes |-> fr.image_bytes, response |-> resp,
                      model_calls |-> model_calls, present |-> fr.present,
                      visited |-> fr.visited] >>

\* lines 329-331: the handler starts on request r, which arrived when seen
\* calls had finished; 503 when the model is missing.  The handler is a
\* coroutine without await: the event loop starts it only when no other
\* handler is running, and runs it to its end
Handle(r, seen) ==
  /\ pc = "idle"
  /\ health_out' = NoHealth
  /\ last_evicted' = <<>>
  /\ IF ~model_loaded
     THEN Finish([NoFrame EXCEPT !.req = r, !.seen = seen], Failure(503))
     ELSE /\ pc' = "Hashing"
          /\ frame' = [NoFrame EXCEPT !.req = r, !.visited = {"Hashing"},
                                        !.cache0 = content_cache,
                                        !.counters0 = Counters,
                                        !.seen = seen]
          /\ UNCHANGED << response, recent, failed >>

\* POST /extract: a request arrives and its handler starts at once
Receive(r) ==
  /\ nreq < MaxRequests
  /\ nreq' = nreq + 1
  /\ Handle(r, Finished)
  /\ UNCHANGED << confVars, cacheVars, fast_path_hits, tmp_files,
                  model_calls, op_log, fpVars, parserVars, pending >>

\* lines 333-339: decode the image and hash it; 400 when it does not decode
Hashing ==
  /\ pc = "Hashing"
  /\ LET d == b64decode(frame.req.image)
     IN  IF ~d.ok
         THEN Finish(frame, Failure(400))
         ELSE /\ pc' = "CacheCheck"
              /\ frame' = [frame EXCEPT !.image_bytes = d.bytes,
                                        !.content_hash = content_hash_of(frame.req, d.bytes),
                                        !.visited = @ \cup {"CacheCheck"}]
              /\ UNCHANGED << response, recent, failed >>
  /\ UNCHANGED << confVars, cacheVars, fast_path_hits, tmp_files, health_out,
                  nreq, model_calls, op_log, last_evicted, fpVars, parserVars, pending >>

\* lines 340-347: look the hash up; a hit is returned at once
CacheCheck ==
  /\ pc = "CacheCheck"
  /\ LET g == cache_get(content_cache, cache_hits, frame.content_hash)
         fr == [frame EXCEPT
                  !.present = frame.content_hash \in CacheKeys(content_cache)]
     IN  /\ content_cache' = g.cache
         /\ cache_hits' = g.hits
         /\ op_log' = Append(op_log, [op |-> "get", key |-> frame.content_hash,
                                       found |-> fr.present])
         /\ IF g.found
            THEN Finish(fr, Envelope(g.value, "hit", frame.content_hash))
            ELSE /\ pc' = "TempFile"
                 /\ frame' = fr
                 /\ UNCHANGED << response, recent, failed >>
  /\ UNCHANGED << confVars, cache_misses, fast_path_hits, tmp_files,
                  health_out, nreq, model_calls, last_evicted, fpVars, parserVars, pending >>

\* lines 349-352: write the image to a temporary file that outlives the with
TempFile ==
  /\ pc = "TempFile"
  /\ LET path == suffix(frame.req.mime_type)
     IN  /\ tmp_files' = tmp_files \cup {path}
         /\ frame' = [frame EXCEPT !.tmp_path = path,
                                   !.visited = @ \cup {"TempFile", "ModelInvoke"}]
  /\ pc' = "ModelInvoke"
  /\ UNCHANGED << confVars, cacheVars, fast_path_hits, response, recent, failed,
                  health_out, nreq, model_calls, op_log, last_evicted, fpVars, parserVars, pending >>

\* lines 355-356 with one more try after the collaborator raised
ModelInvoke_retry ==
  /\ pc = "ModelInvoke"
  /\ model_calls' = model_calls + 1
  /\ LET prompt == IF frame.req.prompt \in {PromptNone, ""}
                   THEN EXTRACT_SYSTEM_PROMPT ELSE frame.req.prompt
     IN  \/ \E text \in ModelTexts, stats \in GenStats :
              /\ frame' = [frame EXCEPT !.prompt = prompt,
                                        !.raw = [text |-> text, stats |-> stats],
                                        !.visited = @ \cup {"Parsing"}]
              /\ pc' = "Parsing"
         \/ /\ frame.prompt = ""
            /\ frame' = [frame EXCEPT !.prompt = prompt]
            /\ pc' = "ModelInvoke"
         \/ /\ frame.prompt # ""
            /\ frame' = [frame EXCEPT !.ret = Failure(500)]
            /\ pc' = "Finally"
  /\ UNCHANGED << confVars, cacheVars, fast_path_hits, tmp_files, response,
                  recent, failed, health_out, nreq, op_log, last_evicted, fpVars, parserVars, pending >>

\* lines 355-356: one call of the model collaborator, which answers or raises
ModelInvoke ==
  /\ pc = "ModelInvoke"
  /\ model_calls' = model_calls + 1
  /\ LET prompt == IF frame.req.prompt \in {PromptNone, ""}
                   THEN EXTRACT_SYSTEM_PROMPT ELSE frame.req.prompt
     IN  \/ \E text \in ModelTexts, stats \in GenStats :
              /\ frame' = [frame EXCEPT !.prompt = prompt,
                                        !.raw = [text |-> text, stats |-> stats],
                                        !.visited = @ \cup {"Parsing"}]
              /\ pc' = "Parsing"
         \/ /\ frame' = [frame EXCEPT !.prompt = prompt, !.ret = Failure(500)]
            /\ pc' = "Finally"
  /\ UNCHANGED << confVars, cacheVars, fast_path_hits, tmp_files, response,
                  recent, failed, health_out, nreq, op_log, last_evicted, fpVars, parserVars, pending >>

\* lines 358-370: strip the fences and decode
Parsing ==
  /\ pc = "Parsing"
  /\ frame' = [frame EXCEPT !.extracted = parse(frame.raw.text),
                            !.visited = @ \cup {"Enrichment"}]
  /\ pc' = "Enrichment"
  /\ UNCHANGED << confVars, cacheVars, fast_path_hits, tmp_files, response,
                  recent, failed, health_out, nreq, model_calls, op_log, last_evicted,
                  fpVars, parserVars, pending >>

\* lines 373-382: fast-path enrichment
Enrichment ==
  /\ pc = "Enrichment"
  /\ LET e == enrich(frame.extracted)
     IN  IF e.raised
         THEN /\ frame' = [frame EXCEPT !.ret = Failure(500)]
              /\ pc' = "Finally"
              /\ UNCHANGED fast_path_hits
         ELSE /\ frame' = [frame EXCEPT !.extracted = e.doc]
              /\ fast_path_hits' = fast_path_hits + (IF e.hit THEN 1 ELSE 0)
              /\ pc' = "Respond"
  /\ UNCHANGED << confVars, cacheVars, tmp_files, response, recent, failed,
                  health_out,
                  nreq, model_calls, op_log, last_evicted, fpVars, parserVars, pending >>

\* lines 384-404: build the result, store it unless extracted is None
Respond ==
  /\ pc = "Respond"
  /\ LET result == Result(frame.extracted, frame.raw)
         p == cache_put(content_cache, cache_misses, frame.content_hash,
                        result, MAX_CACHE_SIZE)
     IN  IF should_cache(frame.extracted)
         THEN /\ content_cache' = p.cache
              /\ cache_misses' = p.misses
              /\ op_log' = Append(op_log,
                    [op |-> "put", key |-> frame.content_hash,
                     found |-> frame.content_hash \in CacheKeys(content_cache)])
              /\ last_evicted' = p.evicted
              /\ frame' = [frame EXCEPT
                             !.visited = @ \cup {"CacheStore"},
                             !.ret = IF p.raised THEN Failure(500)
                                     ELSE Envelope(result, "miss",
                                                   frame.content_hash)]
         ELSE /\ frame' = [frame EXCEPT
                             !.ret = Envelope(result, "miss", frame.content_hash)]
              /\ UNCHANGED << content_cache, cache_misses, op_log, last_evicted >>
  /\ pc' = "Finally"
  /\ UNCHANGED << confVars, cache_hits, fast_path_hits, tmp_files, response,
                  recent, failed, health_out, nreq, model_calls, fpVars, parserVars, pending >>

\* os.unlink that removes nothing
unlink_nothing(files, path) == files

\* os.unlink(path) on the set of files that exist
unlink(files, path) == files \ {path}

\* lines 405-406: os.unlink(tmp_path), then the return or the exception
Finally ==
  /\ pc = "Finally"
  /\ tmp_files' = unlink(tmp_files, frame.tmp_path)
  /\ Finish(frame, frame.ret)
  /\ UNCHANGED << confVars, cacheVars, fast_path_hits, health_out, nreq,
                  model_calls, op_log, last_evicted, fpVars, parserVars, pending >>

Next ==
  \/ LoadModel
  \/ Health
  \/ \E r \in Requests : Receive(r)
  \/ Hashing
  \/ CacheCheck
  \/ TempFile
  \/ ModelInvoke
  \/ Parsing
  \/ Enrichment
  \/ Respond
  \/ Finally

Spec == Init /\ [][Next]_vars

\* ------------------------------------------- the cache interface alone
\* _cache_get and _cache_put called directly, in any order, on any key
ApiKeys == {sha256(<<b>>) : b \in 65..68}

ApiValues ==
  { Result(JList, [text |-> <<"[]">>, stats |-> NoStats]),
    Result(JDict(NoFields), [text |-> <<"{}">>, stats |-> NoStats]) }

\* _cache_get(k)
ApiGet(k) ==
  /\ Len(op_log) < MaxOps
  /\ LET g == cache_get(content_cache, cache_hits, k)
     IN  /\ content_cache' = g.cache
         /\ cache_hits' = g.hits
  /\ op_log' = Append(op_log, [op |-> "get", key |-> k,
                                found |-> k \in CacheKeys(content_cache)])
  /\ last_evicted' = <<>>
  /\ UNCHANGED << confVars, cache_misses, fast_path_hits, tmp_files, callVars,
                  health_out, nreq, model_calls, fpVars, parserVars, pending >>

\* _cache_put(k, v)
ApiPut(k, v) ==
  /\ Len(op_log) < MaxOps
  /\ LET p == cache_put(content_cache, cache_misses, k, v, MAX_CACHE_SIZE)
     IN  /\ content_cache' = p.cache
         /\ cache_misses' = p.misses
         /\ last_evicted' = p.evicted
  /\ op_log' = Append(op_log, [op |-> "put", key |-> k,
                                found |-> k \in CacheKeys(content_cache)])
  /\ UNCHANGED << confVars, cache_hits, fast_path_hits, tmp_files, callVars,
                  health_out, nreq, model_calls, fpVars, parserVars, pending >>

NextCache ==
  \/ \E k \in ApiKeys : ApiGet(k)
  \/ \E k \in ApiKeys, v \in ApiValues : ApiPut(k, v)

SpecCache == Init /\ [][NextCache]_vars

\* --------------------------------- the matcher and the enrichment alone
RECURSIVE Flatten(_)
Flatten(ss) == IF ss = <<>> THEN <<>> ELSE Head(ss) \o Flatten(Tail(ss))

FpPieces ==
  { <<"L","i","d","l">>, <<"A","L","D","I">>,
    <<"c","o","n","t","i","n","e","n","t","e">>, <<"n","o","s">>,
    <<"P","i","n","g","o">>, <<"D","o","c","e">>, <<" ">> }

\* merchant texts: up to MaxPieces pieces, one after the other
FpTexts ==
  {Flatten(ss) : ss \in UNION {[1..n -> FpPieces] : n \in 0..MaxPieces}}

\* what the model may have put in category and in currency (absent: no key)
FpCategories == {JNull, JStr(<<>>), JNum(0), JStr(Outros)}
FpCurrencies == {JStr(<<>>), JStr(<<"U","S","D">>)}

FpValues(k) == IF k = "category" THEN FpCategories ELSE FpCurrencies

\* parsed documents: any merchant text, with or without category and
\* currency, and the documents that carry no merchant text
FpDocs ==
  { JDict([k \in {"merchant", "total"} \cup DOMAIN extra |->
             IF k = "merchant" THEN JStr(m)
             ELSE IF k = "total" THEN JNum(5) ELSE extra[k]]) :
      m \in FpTexts,
      extra \in UNION { {e \in [D -> FpCategories \cup FpCurrencies] :
                             \A k \in D : e[k] \in FpValues(k)} :
                          D \in SUBSET {"category", "currency"} } }
  \cup { None, JList, JDict(NoFields), JDict("merchant" :> JNull),
         JDict("merchant" :> JNum(5)), JDict("category" :> JStr(Outros)) }

InitFp ==
  /\ MAX_CACHE_SIZE = MaxCapacity
  /\ fp_in \in FpDocs
  /\ text_in = <<>>
  /\ Start

\* _try_fast_path(merchant) on the merchant text of the document
FpMatch ==
  /\ fp_out.pc = "start"
  /\ fp_in.t = "dict"
  /\ "merchant" \in DOMAIN fp_in.f
  /\ fp_in.f["merchant"].t = "str"
  /\ LET meta == try_fast_path(fp_in.f["merchant"].s)
     IN  /\ fp_out' = [NoFpOut EXCEPT !.pc = "matched", !.meta = meta]
         /\ fast_path_hits' = fast_path_hits + (IF meta # NoMeta THEN 1 ELSE 0)
  /\ UNCHANGED << confVars, cacheVars, tmp_files, callVars, health_out, nreq,
                  model_calls, op_log, last_evicted, fp_in, parserVars, pending >>

\* lines 373-382 on the document
FpEnrich ==
  /\ fp_out.pc = "start"
  /\ LET e == enrich(fp_in)
     IN  /\ fp_out' = [NoFpOut EXCEPT !.pc = "enriched", !.doc = e.doc,
                                      !.raised = e.raised]
         /\ fast_path_hits' = fast_path_hits + (IF e.hit THEN 1 ELSE 0)
  /\ UNCHANGED << confVars, cacheVars, tmp_files, callVars, health_out, nreq,
                  model_calls, op_log, last_evicted, fp_in, parserVars, pending >>

NextFp ==
  \/ FpMatch
  \/ FpEnrich

SpecFastPath == InitFp /\ [][NextFp]_vars


\* ------------------------------------------------------ the parser alone
\* model texts: up to MaxTokens tokens, fences, json tags, blanks, prose and
\* documents in any order
ParserTokens == {FENCE, JSONTAG, "\n", "Here", DocLidl, DocGalp}

ParserTexts == UNION {[1..n -> ParserTokens] : n \in 0..MaxTokens}

InitParser ==
  /\ MAX_CACHE_SIZE = MaxCapacity
  /\ fp_in = None
  /\ text_in \in ParserTexts
  /\ Start

\* lines 360-370 on the text: strip the fences, then json.loads
ParseText ==
  /\ ~parsed.done
  /\ parsed' = [done |-> TRUE, text |-> strip_fences(text_in),
                extracted |-> parse(text_in)]
  /\ UNCHANGED << confVars, cacheVars, fast_path_hits, tmp_files, callVars,
                  health_out, nreq, model_calls, op_log, last_evicted, fpVars,
                  text_in, pending >>

NextParser == ParseText

SpecParser == InitParser /\ [][NextParser]_vars

\* --------------------------------------------------- concurrent clients
\* requests sent while others are outstanding: they queue up for the event
\* loop, which runs one handler at a time, in any order
ConcRequests ==
  {r \in Requests : r.image \in {"QQ==", "QQ\n==", "Qg=="}}

\* a request arrives, whatever the server is doing
Arrive(r) ==
  /\ nreq < MaxArrivals
  /\ nreq' = nreq + 1
  /\ pending' = pending \cup {[id |-> nreq + 1, req |-> r, seen |-> Finished]}
  /\ UNCHANGED << confVars, cacheVars, fast_path_hits, tmp_files, callVars,
                  health_out, model_calls, op_log, last_evicted, fpVars,
                  parserVars >>

\* the event loop starts the handler of a waiting request
StartHandler(p) ==
  /\ p \in pending
  /\ pending' = pending \ {p}
  /\ Handle(p.req, p.seen)
  /\ UNCHANGED << confVars, cacheVars, fast_path_hits, tmp_files, nreq,
                  model_calls, op_log, fpVars, parserVars >>

NextConc ==
  \/ LoadModel
  \/ \E r \in ConcRequests : Arrive(r)
  \/ \E p \in pending : StartHandler(p)
  \/ Hashing
  \/ CacheCheck
  \/ TempFile
  \/ ModelInvoke
  \/ Parsing
  \/ Enrichment
  \/ Respond
  \/ Finally

SpecConc == Init /\ [][NextConc]_vars
\* ============================================================== claims
\* the last two finished extract calls were for the same image bytes
TwoCalls == Len(recent) = 2
SameBytes ==
  /\ recent[1].image_bytes # <<>>
  /\ recent[1].image_bytes = recent[2].image_bytes

\* the second call repeats the first from the cache, without the model
SecondRepeatsFirst ==
  /\ recent[2].response.code = 200
  /\ recent[2].response.extraction = recent[1].response.extraction
  /\ recent[2].response.raw_text = recent[1].response.raw_text
  /\ recent[2].response.content_hash = recent[1].response.content_hash
  /\ recent[2].response.cache = "hit"
  /\ recent[2].model_calls = recent[1].model_calls

\* C1 as stated: whenever extract answered a call and is called again with
\* the same bytes, the second answer has the same extraction, raw_text and
\* content_hash, is tagged hit, and the model was not invoked again.
C1_Original ==
  (TwoCalls /\ SameBytes /\ recent[1].response.code = 200)
    => SecondRepeatsFirst

\* C1 amended: the same, for a first call that answered with an extraction
\* that is not null, under a capacity of at least 1.
C1_Idempotence ==
  (/\ TwoCalls /\ SameBytes
   /\ recent[1].response.code = 200
   /\ recent[1].response.extraction # None
   /\ MAX_CACHE_SIZE >= 1)
    => SecondRepeatsFirst

C1_Witness ==
  /\ TwoCalls /\ SameBytes
  /\ MAX_CACHE_SIZE >= 1
  /\ recent[1].response.cache = "miss"
  /\ recent[1].response.extraction # None
  /\ recent[2].response.cache = "hit"

\* C2: every envelope in the cache has an extraction that is not null, and
\* so has every response tagged hit.
C2_NeverCacheNull ==
  /\ \A i \in 1..Len(content_cache) : content_cache[i].value.extraction # None
  /\ response.cache = "hit" => response.extraction # None
  /\ \A i \in 1..Len(recent) :
       recent[i].response.cache = "hit" => recent[i].response.extraction # None

C2_Witness ==
  /\ TwoCalls
  /\ recent[1].response.code = 200
  /\ recent[1].response.extraction = None
  /\ recent[2].response.cache = "hit"
  /\ content_cache # <<>>

\* a finished call that was answered without a document: the model output
\* did not decode, or decoded to null
AnsweredNull(call) ==
  call.response.code = 200 /\ call.response.extraction = None

\* the call in flight has its answer ready and the answer has no document
AnsweringNull ==
  pc = "Finally" /\ frame.ret.code = 200 /\ frame.extracted = None

\* C3 as stated: a call whose model output gave no document leaves the
\* cache as it was when the call came in, with no entry for its hash; the
\* next call with the same bytes is answered with cache = miss and invokes
\* the model again.
C3_Original ==
  /\ AnsweringNull
       => /\ content_cache = frame.cache0
          /\ frame.content_hash \notin CacheKeys(content_cache)
  /\ (TwoCalls /\ SameBytes /\ AnsweredNull(recent[1]))
       => /\ recent[2].response.cache = "miss"
          /\ recent[2].model_calls = recent[1].model_calls + 1

\* C3 amended: the same, but the next call with the same bytes is tagged
\* miss when it is answered; it always invokes the model again and is
\* never answered from the cache (it ends in an error when the model or
\* the enrichment raises).
C3_NullNotStored ==
  /\ AnsweringNull
       => /\ content_cache = frame.cache0
          /\ frame.content_hash \notin CacheKeys(content_cache)
  /\ (TwoCalls /\ SameBytes /\ AnsweredNull(recent[1]))
       => /\ recent[2].response.cache # "hit"
          /\ recent[2].model_calls = recent[1].model_calls + 1
          /\ recent[2].response.code = 200 => recent[2].response.cache = "miss"

C3_Witness ==
  /\ TwoCalls /\ SameBytes
  /\ recent[1].response.code = 200
  /\ ~json_loads(strip_fences(recent[1].response.raw_text)).ok
  /\ recent[2].response.cache = "miss"
  /\ recent[2].model_calls = recent[1].model_calls + 1
  /\ content_cache # <<>>

\* C5: with a capacity of at least 1 the cache never holds more entries than
\* the capacity, and no key twice.
C5_CapacityBound ==
  MAX_CACHE_SIZE >= 1 =>
    /\ Len(content_cache) <= MAX_CACHE_SIZE
    /\ \A i, j \in 1..Len(content_cache) :
         content_cache[i].key = content_cache[j].key => i = j

C5_Witness ==
  /\ MAX_CACHE_SIZE >= 1
  /\ Len(content_cache) = MAX_CACHE_SIZE
  /\ last_evicted # <<>>
  /\ cache_hits > 0

\* ---- reading the history of cache calls
LastOp(log) == log[Len(log)]

\* the step is one _cache_put / one _cache_get
PutStep == Len(op_log') = Len(op_log) + 1 /\ LastOp(op_log').op = "put"
GetStep == Len(op_log') = Len(op_log) + 1 /\ LastOp(op_log').op = "get"

\* position in the log of the last get-hit or put of key k, 0 if none
LastTouch(log, k) ==
  LET S == {i \in 1..Len(log) :
              log[i].key = k /\ (log[i].op = "put" \/ log[i].found)}
  IN  IF S = {} THEN 0 ELSE CHOOSE i \in S : \A j \in S : j <= i

\* the key among ks whose last get-hit or put is the oldest
Oldest(ks, log) ==
  CHOOSE k \in ks : \A j \in ks : LastTouch(log, k) <= LastTouch(log, j)

NumGets(log, found) ==
  Cardinality({i \in 1..Len(log) : log[i].op = "get" /\ log[i].found = found})

\* C4: a put of an absent key into a cache that holds capacity entries
\* evicts exactly one entry, the one whose last get-hit or put is the
\* oldest; the key of a get-hit made just before the put is not evicted when
\* the capacity is at least 2; a put that overwrites a present key, or that
\* leaves the size within the capacity, evicts nothing.
C4_LruEviction ==
  [][ PutStep =>
        LET k == LastOp(op_log').key
            before == CacheKeys(content_cache)
            gone == (before \cup {k}) \ CacheKeys(content_cache')
        IN  /\ (k \notin before /\ Len(content_cache) = MAX_CACHE_SIZE)
                 => /\ gone = {Oldest(before \cup {k}, op_log')}
                    /\ last_evicted' = <<Oldest(before \cup {k}, op_log')>>
            /\ (/\ MAX_CACHE_SIZE >= 2 /\ op_log # <<>>
                /\ LastOp(op_log).op = "get" /\ LastOp(op_log).found)
                 => LastOp(op_log).key \notin gone
            /\ (k \in before \/ Len(content_cache) + 1 <= MAX_CACHE_SIZE)
                 => /\ gone = {}
                    /\ last_evicted' = <<>>
                    /\ Len(content_cache') = Cardinality(before \cup {k}) ]_vars

\* a get-hit on the oldest key, then a put of a new key into the full cache:
\* the key that was hit stays and another one went
C4_Witness ==
  /\ MAX_CACHE_SIZE >= 2
  /\ Len(op_log) >= 4
  /\ op_log[Len(op_log) - 1].op = "get" /\ op_log[Len(op_log) - 1].found
  /\ LastOp(op_log).op = "put" /\ ~LastOp(op_log).found
  /\ Len(last_evicted) = 1
  /\ op_log[Len(op_log) - 1].key = op_log[1].key
  /\ op_log[1].key \in CacheKeys(content_cache)

\* C6 as stated: after N extract calls that missed the cache followed by M
\* that hit it, all answered, all for one content hash and starting from
\* fresh counters, health reports hits = M, misses = N and
\* hit_rate = M/(M+N).
C6_HitRateAccounting ==
  (/\ health_out # NoHealth
   /\ failed = 0
   /\ NumGets(op_log, FALSE) >= 1
   /\ \A i, j \in 1..Len(op_log) :
        /\ op_log[i].key = op_log[j].key
        /\ (i < j /\ op_log[i].op = "get" /\ op_log[j].op = "get"
              /\ op_log[i].found) => op_log[j].found)
    => /\ health_out.hits = NumGets(op_log, TRUE)
       /\ health_out.misses = NumGets(op_log, FALSE)
       /\ health_out.hit_rate =
            Round3(NumGets(op_log, TRUE),
                   NumGets(op_log, TRUE) + NumGets(op_log, FALSE))

\* C7 as stated: a lookup of a present key adds one to hits, a lookup of an
\* absent key adds one to misses and leaves the cache as it is, so that
\* hits + misses is the number of lookups made.
C7_GetCounters ==
  /\ [][ GetStep =>
           IF LastOp(op_log').key \in CacheKeys(content_cache)
           THEN cache_hits' = cache_hits + 1 /\ cache_misses' = cache_misses
           ELSE /\ cache_misses' = cache_misses + 1
                /\ cache_hits' = cache_hits
                /\ content_cache' = content_cache ]_vars
  /\ [](cache_hits + cache_misses
          = NumGets(op_log, TRUE) + NumGets(op_log, FALSE))

\* the pipeline states after CacheCheck
LaterStates == {"TempFile", "ModelInvoke", "Parsing", "Enrichment", "CacheStore"}

\* the entries of a cache, whatever their order
Entries(c) == {c[i] : i \in 1..Len(c)}

\* C8: a response is tagged hit exactly when the hash was in the cache at
\* CacheCheck; such a call ends there: the model is not invoked, no
\* temporary file is made, nothing is put or evicted, the stored envelope
\* is returned as it is, and no later pipeline state is entered.
C8_HitShortCircuit ==
  /\ [][ pc = "CacheCheck" =>
           LET h == frame.content_hash
           IN  IF h \in CacheKeys(content_cache)
               THEN LET stored == content_cache[IndexOf(content_cache, h)].value
                    IN  /\ pc' = "idle"
                        /\ response'.cache = "hit"
                        /\ response'.code = 200
                        /\ response'.status = stored.status
                        /\ response'.extraction = stored.extraction
                        /\ response'.raw_text = stored.raw_text
                        /\ response'.stats = stored.stats
                        /\ model_calls' = model_calls
                        /\ tmp_files' = tmp_files
                        /\ cache_misses' = cache_misses
                        /\ last_evicted' = last_evicted
                        /\ Entries(content_cache') = Entries(content_cache)
                        /\ LastOp(recent').visited \cap LaterStates = {}
               ELSE pc' \in {"CacheCheck", "TempFile"} /\ response' = response ]_vars
  /\ [](\A i \in 1..Len(recent) :
          /\ recent[i].response.cache = "hit" <=> recent[i].present
          /\ recent[i].present => recent[i].visited = {"Hashing", "CacheCheck"})
  /\ [](pc \in LaterStates \cup {"Respond", "Finally"} =>
          /\ ~frame.present
          /\ frame.content_hash \notin CacheKeys(frame.cache0))

C8_Witness ==
  /\ TwoCalls
  /\ recent[2].present
  /\ recent[2].response.cache = "hit"
  /\ recent[2].model_calls = recent[1].model_calls
  /\ cache_hits = 1
  /\ tmp_files = {}

\* ---- case-insensitive occurrence, letter by letter
Letters ==
  << "a","b","c","d","e","f","g","h","i","j","k","l","m",
     "n","o","p","q","r","s","t","u","v","w","x","y","z" >>
Capitals ==
  << "A","B","C","D","E","F","G","H","I","J","K","L","M",
     "N","O","P","Q","R","S","T","U","V","W","X","Y","Z" >>

SameLetter(a, b) ==
  a = b \/ \E i \in 1..Len(Letters) : {a, b} = {Letters[i], Capitals[i]}

OccursIgnoringCase(key, text) ==
  \E o \in 0..(Len(text) - Len(key)) :
    \A i \in 1..Len(key) : SameLetter(text[o + i], key[i])

\* the rules whose keyword occurs in the text
Matching(text) ==
  {i \in 1..Len(FAST_PATH_MERCHANTS) :
     OccursIgnoringCase(FAST_PATH_MERCHANTS[i].key, text)}

\* the document has a merchant text
HasMerchantText(doc) ==
  doc.t = "dict" /\ "merchant" \in DOMAIN doc.f /\ doc.f["merchant"].t = "str"

\* C9: the matcher returns the first rule, in definition order, whose keyword
\* occurs in the text whatever the case of the letters, and nothing when no
\* keyword occurs; where in the text the keywords stand does not matter.
C9_FirstMatchWins ==
  fp_out.pc = "matched" =>
    LET M == Matching(fp_in.f["merchant"].s)
    IN  IF M = {} THEN fp_out.meta = NoMeta
        ELSE \E i \in M : /\ \A j \in M : i <= j
                          /\ fp_out.meta = FAST_PATH_MERCHANTS[i]

\* "ALDILidl": aldi comes first in the text and in the alphabet, lidl in the
\* rules
C9_Witness ==
  /\ fp_out.pc = "matched"
  /\ fp_in.f["merchant"].s = <<"A","L","D","I","L","i","d","l">>
  /\ fp_out.meta.merchant = <<"L","i","d","l">>
  /\ fast_path_hits = 1

LidlKey == <<"l","i","d","l">>
LidlName == <<"L","i","d","l">>
LidlIndex == CHOOSE i \in 1..Len(FAST_PATH_MERCHANTS) : FAST_PATH_MERCHANTS[i].key = LidlKey

\* C10 as stated: a parsed result whose merchant text contains lidl comes
\* out with merchant Lidl, category Supermercado and currency EUR; one whose
\* merchant text contains no keyword comes out as it was.
C10_Original ==
  (fp_out.pc = "enriched" /\ HasMerchantText(fp_in)) =>
    /\ OccursIgnoringCase(LidlKey, fp_in.f["merchant"].s)
         => /\ ~fp_out.raised
            /\ DictGet(fp_out.doc, "merchant", JNull) = JStr(LidlName)
            /\ DictGet(fp_out.doc, "category", JNull) = JStr(Supermercado)
            /\ DictGet(fp_out.doc, "currency", JNull) = JStr(EUR)
    /\ Matching(fp_in.f["merchant"].s) = {}
         => ~fp_out.raised /\ fp_out.doc = fp_in

\* C10 amended: a parsed result whose merchant text contains lidl and none
\* of the keywords defined before it comes out with merchant Lidl, with
\* category Supermercado unless it had a category and with currency EUR
\* unless it had a currency, which are kept; one whose merchant text
\* contains no keyword comes out as it was.
C10_LidlDeterminism ==
  (fp_out.pc = "enriched" /\ HasMerchantText(fp_in)) =>
    /\ (/\ OccursIgnoringCase(LidlKey, fp_in.f["merchant"].s)
        /\ \A j \in Matching(fp_in.f["merchant"].s) : j >= LidlIndex)
         => /\ ~fp_out.raised
            /\ DictGet(fp_out.doc, "merchant", JNull) = JStr(LidlName)
            /\ DictGet(fp_out.doc, "category", JNull) =
                 (IF Truthy(DictGet(fp_in, "category", JNull))
                  THEN fp_in.f["category"] ELSE JStr(Supermercado))
            /\ DictGet(fp_out.doc, "currency", JNull) =
                 (IF Truthy(DictGet(fp_in, "currency", JNull))
                  THEN fp_in.f["currency"] ELSE JStr(EUR))
    /\ Matching(fp_in.f["merchant"].s) = {}
         => ~fp_out.raised /\ fp_out.doc = fp_in

C10_Witness ==
  /\ fp_out.pc = "enriched"
  /\ HasMerchantText(fp_in)
  /\ OccursIgnoringCase(LidlKey, fp_in.f["merchant"].s)
  /\ \E j \in Matching(fp_in.f["merchant"].s) : j > LidlIndex
  /\ "category" \notin DOMAIN fp_in.f
  /\ "currency" \in DOMAIN fp_in.f
  /\ fp_out.doc.f["merchant"] = JStr(LidlName)
  /\ fp_out.doc.f["category"] = JStr(Supermercado)
  /\ fp_out.doc.f["currency"] = JStr(<<"U","S","D">>)


\* ---- what the enrichment may and may not touch
RECURSIVE FirstFrom(_, _)
\* the first rule from rule i on whose keyword occurs in the text
FirstFrom(text, i) ==
  IF i >= Len(FAST_PATH_MERCHANTS) THEN i
  ELSE IF OccursIgnoringCase(FAST_PATH_MERCHANTS[i].key, text) THEN i
  ELSE FirstFrom(text, i + 1)

FirstMatch(text) == FirstFrom(text, 1)

\* the rule that matches the merchant text of the document
MatchedRule(doc) == FAST_PATH_MERCHANTS[FirstMatch(doc.f["merchant"].s)]

RuleMatches(doc) ==
  /\ HasMerchantText(doc)
  /\ \E i \in 1..Len(FAST_PATH_MERCHANTS) :
       OccursIgnoringCase(FAST_PATH_MERCHANTS[i].key, doc.f["merchant"].s)

RuleValue(doc, k) ==
  IF k = "category" THEN JStr(MatchedRule(doc).category)
  ELSE JStr(MatchedRule(doc).currency)

\* C11 as stated: when a rule matches, merchant becomes the rule's name and
\* every other field the parsed result sets, category and currency among
\* them, comes out as it was; category and currency are added from the
\* rule only where the parsed result has no such field.
C11_Original ==
  (fp_out.pc = "enriched" /\ RuleMatches(fp_in)) =>
    /\ ~fp_out.raised
    /\ DOMAIN fp_out.doc.f = DOMAIN fp_in.f \cup {"category", "currency"}
    /\ fp_out.doc.f["merchant"] = JStr(MatchedRule(fp_in).merchant)
    /\ \A k \in DOMAIN fp_in.f \ {"merchant"} : fp_out.doc.f[k] = fp_in.f[k]
    /\ \A k \in {"category", "currency"} \ DOMAIN fp_in.f :
         fp_out.doc.f[k] = RuleValue(fp_in, k)

\* C11 amended: the same, where a category or currency that the parsed
\* result holds as null, as the empty string or as zero counts as not set
\* and is filled from the rule; every other value is kept.
C11_NonDestructive ==
  (fp_out.pc = "enriched" /\ RuleMatches(fp_in)) =>
    /\ ~fp_out.raised
    /\ DOMAIN fp_out.doc.f = DOMAIN fp_in.f \cup {"category", "currency"}
    /\ fp_out.doc.f["merchant"] = JStr(MatchedRule(fp_in).merchant)
    /\ \A k \in DOMAIN fp_in.f \ {"merchant", "category", "currency"} :
         fp_out.doc.f[k] = fp_in.f[k]
    /\ \A k \in {"category", "currency"} :
         fp_out.doc.f[k] =
           (IF Truthy(DictGet(fp_in, k, JNull)) THEN fp_in.f[k]
            ELSE RuleValue(fp_in, k))

\* "nos" with category Outros and an empty currency: the category stays,
\* the currency and the merchant come from the rule, the total stays
C11_Witness ==
  /\ fp_out.pc = "enriched"
  /\ RuleMatches(fp_in)
  /\ fp_in.f["merchant"] = JStr(<<"n","o","s">>)
  /\ DictGet(fp_in, "category", JNull) = JStr(Outros)
  /\ DictGet(fp_in, "currency", JNull) = JStr(<<>>)
  /\ fp_out.doc.f["merchant"] = JStr(<<"N","O","S">>)
  /\ fp_out.doc.f["category"] = JStr(Outros)
  /\ fp_out.doc.f["currency"] = JStr(EUR)
  /\ fp_out.doc.f["total"] = fp_in.f["total"]

\* ---- where the fence markers of a text stand
FencesAt(text) == {i \in 1..Len(text) : text[i] = FENCE}

\* the fence markers that are followed at once by the json tag
TaggedAt(text) ==
  {i \in FencesAt(text) : i < Len(text) /\ text[i + 1] = JSONTAG}

MinOf(S) == CHOOSE i \in S : \A j \in S : i <= j
MaxOf(S) == CHOOSE i \in S : \A j \in S : j <= i

\* the content from position a up to the next fence marker, or to the end
UpToFence(text, a) ==
  LET later == {j \in FencesAt(text) : j >= a}
  IN  SubSeq(text, a, IF later = {} THEN Len(text) ELSE MinOf(later) - 1)

\* the policy, with the tagged block at marker i when there is one
Policy(text, i) ==
  IF TaggedAt(text) # {} THEN Strip(UpToFence(text, i + 2))
  ELSE IF FencesAt(text) # {}
       THEN Strip(UpToFence(text, MinOf(FencesAt(text)) + 1))
       ELSE text

\* C12 as stated: the string handed to the decoder is the content between
\* the json-tagged marker that opens the first tagged block and the next
\* fence marker; without a tagged marker, the content between the first
\* pair of fence markers; without a marker, the full text.  Blanks around
\* the content of a block do not count.
C12_Original ==
  parsed.done =>
    parsed.text =
      Policy(text_in, IF TaggedAt(text_in) = {} THEN 0
                      ELSE MinOf(TaggedAt(text_in)))

\* C12 amended: the same with the last json-tagged marker of the text in the
\* place of the first.
C12_FencePolicy ==
  parsed.done =>
    /\ parsed.text =
         Policy(text_in, IF TaggedAt(text_in) = {} THEN 0
                         ELSE MaxOf(TaggedAt(text_in)))
    /\ parsed.extracted = json_loads(parsed.text).doc

\* two tagged blocks with different documents: the second is decoded
C12_Witness ==
  /\ parsed.done
  /\ text_in = <<FENCE, JSONTAG, DocLidl, FENCE, JSONTAG, DocGalp>>
  /\ parsed.text = <<DocGalp>>
  /\ parsed.extracted = JsonDocs[DocGalp]

\* the model answered the call in flight, so the call reached Parsing
ReachedParsing == "Parsing" \in frame.visited

\* C13 as stated: a call that reached Parsing ends with a successful
\* response (code 200, status ok) whose raw_text is the model text as it
\* came; when the text does not decode the extraction is null.  Stated for
\* a capacity of at least 1.
C13_NeverAnError ==
  (pc = "Finally" /\ ReachedParsing /\ MAX_CACHE_SIZE >= 1) =>
    /\ frame.ret.code = 200
    /\ frame.ret.status = "ok"
    /\ frame.ret.raw_text = frame.raw.text
    /\ ~json_loads(strip_fences(frame.raw.text)).ok
         => frame.ret.extraction = None

\* C14 as stated: a call whose image does not decode ends with code 400 and
\* has been through Hashing, whether the model is loaded or not; code 503 is
\* given only to calls whose image decodes, while the model is not loaded.
C14_InvalidInputRejected ==
  \A i \in 1..Len(recent) :
    /\ ~recent[i].decodable
         => /\ recent[i].response.code = 400
            /\ "Hashing" \in recent[i].visited
    /\ recent[i].response.code = 503
         => recent[i].decodable /\ ~recent[i].ready

\* the pipeline states in which the temporary file of the call exists
WithTempFile == {"ModelInvoke", "Parsing", "Enrichment", "Respond", "Finally"}

\* C15: while no call is in flight no temporary file exists; a call holds
\* exactly its own file from ModelInvoke until its finally clause, whatever
\* the way it ends.
C15_TempFileRelease ==
  /\ pc = "idle" => tmp_files = {}
  /\ pc \in WithTempFile => tmp_files = {frame.tmp_path}
  /\ pc \in {"Hashing", "CacheCheck", "TempFile"} => tmp_files = {}

\* two calls that made a temporary file and failed, the first in the model
\* invocation and the second in the enrichment: no file is left
C15_Witness ==
  /\ pc = "idle"
  /\ TwoCalls
  /\ "ModelInvoke" \in recent[1].visited
  /\ "Parsing" \notin recent[1].visited
  /\ recent[1].response.code = 500
  /\ "Enrichment" \in recent[2].visited
  /\ recent[2].response.code = 500
  /\ tmp_files = {}

\* C16: the model is invoked only in ModelInvoke, once per step; a call that
\* left ModelInvoke never comes back to it; when the invocation raises, the
\* call goes to its finally clause and ends with the server error; so no
\* call invokes the model twice.
C16_NoRetries ==
  /\ [][ model_calls' # model_calls =>
           /\ pc = "ModelInvoke"
           /\ model_calls' = model_calls + 1
           /\ pc' \in {"Parsing", "Finally"}
           /\ pc' = "Finally" => frame'.ret.code = 500 ]_vars
  /\ [][ (pc \in {"Parsing", "Enrichment", "Respond", "Finally"})
           => (pc' \in {"Enrichment", "Respond", "Finally", "idle"}) ]_vars
  /\ [][ pc = "Finally" => pc' = "idle" /\ response' = frame.ret ]_vars
  /\ [](model_calls <= nreq)
  /\ [](TwoCalls => recent[2].model_calls <= recent[1].model_calls + 1)

\* one call, one invocation that raised: the call ended in a server error
\* without reaching Parsing
C16_Witness ==
  /\ pc = "idle"
  /\ nreq = 1
  /\ model_calls = 1
  /\ response.code = 500
  /\ recent[1].visited = {"Hashing", "CacheCheck", "TempFile", "ModelInvoke"}

\* C17: health can run whenever no handler is running; each call of health
\* that changes what was last reported reports ready as the model is
\* loaded, the number of entries, the capacity and the three counters as
\* they are, and a hit rate between 0 and 1; it leaves the cache, its
\* order, the counters and everything else of the server as they were.
C17_HealthReadOnly ==
  /\ [][ (health_out' # health_out /\ health_out' # NoHealth) =>
           /\ health_out'.ready = model_loaded
           /\ health_out'.size = Len(content_cache)
           /\ health_out'.max_size = MAX_CACHE_SIZE
           /\ health_out'.hits = cache_hits
           /\ health_out'.misses = cache_misses
           /\ health_out'.fast_path_hits = fast_path_hits
           /\ health_out'.hit_rate \in 0..1000
           /\ UNCHANGED << confVars, cacheVars, fast_path_hits, tmp_files,
                           callVars, nreq, model_calls, op_log,
                           last_evicted >> ]_vars
  /\ [](pc = "idle" => ENABLED Health)

\* health on a full cache that has served a hit
C17_Witness ==
  /\ health_out # NoHealth
  /\ health_out.ready
  /\ health_out.size = health_out.max_size
  /\ health_out.size = Len(content_cache)
  /\ health_out.size >= 1
  /\ health_out.hits >= 1

\* the keys of the cache, oldest first
KeyOrder(c) == [i \in 1..Len(c) |-> c[i].key]

\* the operation touches its key: a put, or a get that found it
Touches(e) == e.op = "put" \/ e.found

\* C20: after any sequence of gets and puts the present keys stand in the
\* order of their last get-hit or put, oldest first; the key of the latest
\* get-hit or put, when it is present, is the newest, and it is present
\* under a capacity of at least 1; a get of an absent key leaves the order
\* as it is.
C20_RecencyOrder ==
  /\ [](\A i, j \in 1..Len(content_cache) :
          i < j => LastTouch(op_log, content_cache[i].key)
                     < LastTouch(op_log, content_cache[j].key))
  /\ [](\A i \in 1..Len(content_cache) :
          LastTouch(op_log, content_cache[i].key) > 0)
  /\ []((op_log # <<>> /\ Touches(LastOp(op_log))) =>
          /\ LastOp(op_log).key \in CacheKeys(content_cache)
               => content_cache[Len(content_cache)].key = LastOp(op_log).key
          /\ MAX_CACHE_SIZE >= 1
               => LastOp(op_log).key \in CacheKeys(content_cache))
  /\ [][ (GetStep /\ ~LastOp(op_log').found) =>
           KeyOrder(content_cache') = KeyOrder(content_cache) ]_vars

\* two keys put, the older one read, then a key that is absent looked up:
\* the key that was read is the newest and the miss changed nothing
C20_Witness ==
  /\ MAX_CACHE_SIZE = 2
  /\ Len(op_log) = 4
  /\ op_log[1].op = "put" /\ op_log[2].op = "put"
  /\ op_log[3].op = "get" /\ op_log[3].found /\ op_log[3].key = op_log[1].key
  /\ op_log[4].op = "get" /\ ~op_log[4].found
  /\ KeyOrder(content_cache) = <<op_log[2].key, op_log[1].key>>

\* ---- requests that are outstanding together
\* the last two finished calls were outstanding at the same time: the one
\* that finished second had arrived before the other finished
Concurrent == TwoCalls /\ recent[2].seen < recent[1].order

SameImage(r1, r2) ==
  b64decode(r1.image).ok /\ b64decode(r1.image) = b64decode(r2.image)

NumPuts(log) == Cardinality({i \in 1..Len(log) : log[i].op = "put"})

\* the keys that have been put
PutKeys(log) == {log[i].key : i \in {j \in 1..Len(log) : log[j].op = "put"}}

\* the keys touched after the last touch of k
TouchedAfter(log, k) ==
  {j \in PutKeys(log) : LastTouch(log, j) > LastTouch(log, k)}

\* C18: whatever the order in which the handlers of concurrent requests
\* run, every get and every put is one step: a get-hit adds one to hits and
\* makes its key the newest, a get-miss changes nothing, a put adds one to
\* the put counter and makes its key the newest, and nothing else writes
\* the cache or the counters.  No increment is lost (hits is the number of
\* get-hits, misses the number of puts, fast-path hits grow by one in
\* Enrichment only), no entry is lost (a key that was put is present unless
\* capacity other keys were touched after it), keys are unique, the size is
\* within the capacity and the order is that of the last touches.
C18_SerializedAccess ==
  /\ [][ GetStep =>
           LET k == LastOp(op_log').key
           IN  IF k \in CacheKeys(content_cache)
               THEN /\ cache_hits' = cache_hits + 1
                    /\ cache_misses' = cache_misses
                    /\ Entries(content_cache') = Entries(content_cache)
                    /\ content_cache'[Len(content_cache')].key = k
               ELSE UNCHANGED cacheVars ]_vars
  /\ [][ PutStep =>
           LET k == LastOp(op_log').key
           IN  /\ cache_misses' = cache_misses + 1
               /\ cache_hits' = cache_hits
               /\ MAX_CACHE_SIZE >= 1 =>
                    /\ content_cache'[Len(content_cache')].key = k
                    /\ CacheKeys(content_cache') \subseteq
                         CacheKeys(content_cache) \cup {k} ]_vars
  /\ [][ (cacheVars' # cacheVars) => (GetStep \/ PutStep) ]_vars
  /\ [][ (fast_path_hits' # fast_path_hits) =>
           (pc = "Enrichment" /\ fast_path_hits' = fast_path_hits + 1) ]_vars
  /\ [](cache_hits = NumGets(op_log, TRUE))
  /\ [](cache_misses = NumPuts(op_log))
  /\ [](MAX_CACHE_SIZE >= 1 =>
          \A k \in PutKeys(op_log) :
            \/ k \in CacheKeys(content_cache)
            \/ Cardinality(TouchedAfter(op_log, k)) >= MAX_CACHE_SIZE)
  /\ [](\A i, j \in 1..Len(content_cache) :
          /\ content_cache[i].key = content_cache[j].key => i = j
          /\ i < j => LastTouch(op_log, content_cache[i].key)
                        < LastTouch(op_log, content_cache[j].key))
  /\ [](MAX_CACHE_SIZE >= 0 => Len(content_cache) <= MAX_CACHE_SIZE)

\* two requests for different images, outstanding together, both stored
C18_Witness ==
  /\ Concurrent
  /\ pc = "idle"
  /\ recent[1].image_bytes # recent[2].image_bytes
  /\ "CacheStore" \in recent[1].visited
  /\ "CacheStore" \in recent[2].visited
  /\ cache_misses = 2
  /\ Len(content_cache) = 2

\* a call that missed the cache is between CacheCheck and its store
MissInFlight == pc \in {"TempFile", "ModelInvoke", "Parsing", "Enrichment", "Respond"}

\* the waiting requests for the image of the call in flight
TwinsWaiting == {p \in pending : SameImage(p.req, frame.req)}

\* C19 as stated: while a call that missed the cache has not yet stored its
\* result, a waiting request for the same image can start, so that it
\* passes CacheCheck as a miss too; and when two calls for one image, both
\* outstanding together, both missed and both stored, the cache holds one
\* entry for the hash, the second put evicted nothing and both responses
\* are tagged miss (capacity at least 1).
C19_Original ==
  /\ (MissInFlight /\ TwinsWaiting # {})
       => \E p \in TwinsWaiting : ENABLED StartHandler(p)
  /\ (/\ Concurrent /\ SameBytes /\ MAX_CACHE_SIZE >= 1
      /\ ~recent[1].present /\ ~recent[2].present
      /\ "CacheStore" \in recent[1].visited
      /\ "CacheStore" \in recent[2].visited)
       => /\ pc = "idle" =>
               Cardinality({i \in 1..Len(content_cache) :
                 content_cache[i].key = sha256(recent[2].image_bytes)}) = 1
          /\ pc = "idle" => last_evicted = <<>>
          /\ recent[1].response.cache = "miss"
          /\ recent[2].response.cache = "miss"

\* C19 amended: no handler starts while another is running, so of two
\* requests for one uncached image that are outstanding together the
\* second passes CacheCheck after the first has finished; when the first
\* stored its result (an extraction that is not null, capacity at least 1)
\* the second is answered from the cache, tagged hit, without invoking the
\* model, and the cache holds one entry for the hash when it has finished.
C19_NoDuplicateWork ==
  /\ pc # "idle" => \A p \in pending : ~ENABLED StartHandler(p)
  /\ (/\ Concurrent /\ SameBytes /\ MAX_CACHE_SIZE >= 1
      /\ ~recent[1].present
      /\ recent[1].response.code = 200
      /\ recent[1].response.extraction # None)
       => /\ recent[2].present
          /\ recent[2].response.cache = "hit"
          /\ recent[2].response.extraction = recent[1].response.extraction
          /\ recent[2].model_calls = recent[1].model_calls
          /\ recent[2].visited = {"Hashing", "CacheCheck"}
          /\ pc = "idle" =>
               Cardinality({i \in 1..Len(content_cache) :
                 content_cache[i].key = sha256(recent[2].image_bytes)}) = 1

\* two requests for one image were waiting together; the first missed and
\* stored, the second was a hit: one model invocation in all
C19_Witness ==
  /\ Concurrent /\ SameBytes
  /\ pc = "idle"
  /\ recent[2].seen = 0
  /\ recent[1].response.cache = "miss"
  /\ recent[1].response.extraction # None
  /\ recent[2].response.cache = "hit"
  /\ model_calls = 1
  /\ Len(content_cache) = 1

\* ------------------------------------------------------------ C21

\* this step ends an extract call in a failure
FailureStep == failed' = failed + 1

\* the shared state when the call that ends in this step started: the
\* 503 is raised by the handler's first step, the other calls kept a
\* snapshot
Before ==
  IF pc = "idle"
  THEN [cache |-> content_cache, counters |-> Counters]
  ELSE [cache |-> frame.cache0, counters |-> frame.counters0]

\* the failure this step ends in is one of: model not loaded (503),
\* invalid base64 (400), the model invocation raising (500 out of line 356)
ListedFailure ==
  \/ response'.code = 503 /\ pc = "idle"
  \/ response'.code = 400 /\ pc = "Hashing"
  \/ /\ response'.code = 500 /\ pc = "Finally"
     /\ "ModelInvoke" \in frame.visited /\ "Parsing" \notin frame.visited

\* C21: an extract call that ends in a failure because the model is not
\* loaded, the image is not valid base64 or the model invocation raised
\* leaves the cache (its entries and their recency order) and the hits,
\* misses and fast-path counters as they were when the call started.
C21_FailuresLeaveState ==
  [][ (FailureStep /\ ListedFailure)
        => /\ content_cache' = Before.cache
           /\ Counters' = Before.counters ]_vars

\* with an entry stored and counted, a call was rejected for its base64
\* and the next one failed in the model invocation after a cache miss
C21_Witness ==
  /\ TwoCalls
  /\ pc = "idle"
  /\ recent[1].response.code = 400
  /\ recent[2].response.code = 500
  /\ "ModelInvoke" \in recent[2].visited
  /\ "Parsing" \notin recent[2].visited
  /\ content_cache # <<>>
  /\ cache_misses > 0

\* ------------------------------------------------------------ C22

\* the result stored under hash h in cache c
StoredUnder(c, h) == c[IndexOf(c, h)].value

\* the two requests differ in each field that is not the image bytes
OtherFields(r1, r2) ==
  /\ r1.prompt # r2.prompt
  /\ r1.max_tokens # r2.max_tokens
  /\ r1.mime_type # r2.mime_type

\* C22: the cache key of a call is the hash of the decoded image bytes and
\* of nothing else in the request; a call whose hash is present in the
\* cache ends at CacheCheck with the extraction and raw_text stored under
\* the hash, tagged hit, without invoking the model, whatever its prompt,
\* max_tokens and mime_type are; so of two calls in a row for the same
\* bytes, the second answered from the entry the first populated, the
\* second returns the first one's extraction and raw_text also when all
\* its other fields differ.
C22_BytesOnlyIdentity ==
  /\ [](pc \notin {"idle", "Hashing"}
          => frame.content_hash = sha256(b64decode(frame.req.image).bytes))
  /\ [][ (pc = "CacheCheck" /\ frame.content_hash \in CacheKeys(content_cache))
           => LET stored == StoredUnder(content_cache, frame.content_hash)
              IN  /\ pc' = "idle"
                  /\ response'.code = 200
                  /\ response'.cache = "hit"
                  /\ response'.extraction = stored.extraction
                  /\ response'.raw_text = stored.raw_text
                  /\ model_calls' = model_calls ]_vars
  /\ []((/\ TwoCalls /\ SameBytes
         /\ ~recent[1].present /\ recent[2].present)
          => /\ recent[2].response.extraction = recent[1].response.extraction
             /\ recent[2].response.raw_text = recent[1].response.raw_text
             /\ recent[2].model_calls = recent[1].model_calls)

\* an entry populated under the default prompt, as a png, was served to a
\* call for the same bytes with a prompt of its own, another token budget
\* and another mime type
C22_Witness ==
  /\ TwoCalls /\ SameBytes
  /\ pc = "idle"
  /\ ~recent[1].present
  /\ recent[1].req.prompt = PromptNone
  /\ recent[2].req.prompt = "List the items"
  /\ OtherFields(recent[1].req, recent[2].req)
  /\ recent[2].response.cache = "hit"
  /\ recent[2].response.extraction # None
  /\ recent[2].response.extraction = recent[1].response.extraction
  /\ recent[2].model_calls = recent[1].model_calls

\* ------------------------------------------------------------ C23

Min(a, b) == IF a <= b THEN a ELSE b

\* this step is the store of lines 396-397
StoreStep == pc = "Respond" /\ should_cache(frame.extracted)

\* len(_content_cache) after line 84, before the eviction loop
SizeAfterInsert ==
  Len(content_cache)
    + (IF frame.content_hash \in CacheKeys(content_cache) THEN 0 ELSE 1)

\* C23: under every capacity the configuration can supply, 0 and negative
\* values too, the put of a store ends without raising and leaves
\* max(0, min(size, capacity)) entries, size being the number of entries
\* after the insertion, and the call that stored ends with a successful
\* response.
C23_PutCompletes ==
  /\ [][ StoreStep
           => /\ frame'.ret.code = 200
              /\ Len(content_cache') =
                   Max(0, Min(SizeAfterInsert, MAX_CACHE_SIZE)) ]_vars
  /\ []((pc = "idle" /\ recent # <<>>
         /\ "CacheStore" \in recent[Len(recent)].visited)
          => response.code = 200)
====
